---- MODULE Spec2Model ----
(***************************************************************************)
(* Model of wmt_gps_splitter.py: the GPS fan-out service.                  *)
(*                                                                         *)
(* One process reads chunks from the physical source and copies them to N  *)
(* pseudo-terminal masters; each pty slave is published as the symlink     *)
(* /dev/gps{i}.  The model follows main() statement by statement where a   *)
(* signal can make a difference, and keeps the source's names.             *)
(*                                                                         *)
(* Text (file names, configuration lines) is a sequence of one-character   *)
(* strings.  A file name is kept as its suffix after the fixed prefix      *)
(* "/dev/gps": the name "/dev/gps0" is << "0" >>, "/dev/gpsd" is << "d" >>.*)
(***************************************************************************)
EXTENDS Integers, Sequences, FiniteSets, TLC

(***************************************************************************)
(* Bounds of the model.                                                    *)
(***************************************************************************)
MaxRuns == 2        \* runs of the service in succession
MaxPorts == 2       \* largest port count a configuration file asks for
MaxStale == 1       \* entries under /dev/gps* that exist before the first run
MaxBytes == 2       \* bytes the source delivers before end-of-stream
MaxChunk == 2       \* largest chunk one os.read returns (4096 in the code)
BufCap == 1         \* bytes a pty buffer holds before a write would block

(***************************************************************************)
(* Program constants.                                                      *)
(***************************************************************************)
START_ID == 0
MaxRetries == 30
SleepSecs == 2
LinkMode == 438     \* 0o666
PtyMode == 400      \* 0o620, the mode of a freshly allocated pty slave

Digits == <<"0", "1", "2", "3", "4", "5", "6", "7", "8", "9">>

IsDigit(c) == \E k \in 1..10 : Digits[k] = c

DigitVal(c) == (CHOOSE k \in 1..10 : Digits[k] = c) - 1

IsSpace(c) == c \in {" ", "\t", "\n", "\r"}

(***************************************************************************)
(* str methods used by load_config.                                        *)
(***************************************************************************)
RECURSIVE LStrip(_)
LStrip(s) == IF s # <<>> /\ IsSpace(Head(s)) THEN LStrip(Tail(s)) ELSE s

RECURSIVE RStrip(_)
RStrip(s) ==
  IF s # <<>> /\ IsSpace(s[Len(s)]) THEN RStrip(SubSeq(s, 1, Len(s) - 1)) ELSE s

Strip(s) == RStrip(LStrip(s))

StartsWith(s, p) == Len(s) >= Len(p) /\ SubSeq(s, 1, Len(p)) = p

LowerChar(c) ==
  CASE c = "F" -> "f"
    [] c = "A" -> "a"
    [] c = "L" -> "l"
    [] c = "S" -> "s"
    [] c = "E" -> "e"
    [] OTHER -> c

Lower(s) == [k \in 1..Len(s) |-> LowerChar(s[k])]

\* Positions of "=" in s, and line.split('=')[1]: the text between the first
\* "=" and the second one (or the end of the line).
EqPositions(s) == {k \in 1..Len(s) : s[k] = "="}

SplitPart1(s) ==
  LET first == CHOOSE k \in EqPositions(s) : \A j \in EqPositions(s) : k <= j
      later == {k \in EqPositions(s) : k > first}
      stop  == IF later = {} THEN Len(s) + 1
               ELSE CHOOSE k \in later : \A j \in later : k <= j
  IN  SubSeq(s, first + 1, stop - 1)

\* int(val) on text that strip() has already trimmed: an optional sign and one
\* or more decimal digits; anything else raises ValueError.
RECURSIVE DecValue(_)
DecValue(s) ==
  IF s = <<>> THEN 0
  ELSE 10 * DecValue(SubSeq(s, 1, Len(s) - 1)) + DigitVal(s[Len(s)])

IsDecimal(s) == s # <<>> /\ \A k \in 1..Len(s) : IsDigit(s[k])

ParseInt(s) ==
  IF s # <<>> /\ Head(s) \in {"+", "-"}
  THEN IF IsDecimal(Tail(s))
       THEN [ok |-> TRUE,
             n  |-> IF Head(s) = "-" THEN 0 - DecValue(Tail(s)) ELSE DecValue(Tail(s))]
       ELSE [ok |-> FALSE, n |-> 0]
  ELSE IF IsDecimal(s) THEN [ok |-> TRUE, n |-> DecValue(s)]
       ELSE [ok |-> FALSE, n |-> 0]

GPS_PORT == <<"g", "p", "s", "_", "p", "o", "r", "t">>

FALSE_TEXT == <<"f", "a", "l", "s", "e">>

\* The body of the `for line in f` loop of load_config for one line: "next"
\* when the loop goes on to the following line, otherwise the value returned.
LineResult(line) ==
  IF ~StartsWith(Strip(line), GPS_PORT) THEN [ret |-> FALSE, val |-> -1]
  ELSE IF EqPositions(line) = {} THEN [ret |-> FALSE, val |-> -1]
  ELSE LET val == Lower(Strip(SplitPart1(line)))
       IN  IF val = FALSE_TEXT THEN [ret |-> TRUE, val |-> -1]
           ELSE IF ParseInt(val).ok THEN [ret |-> TRUE, val |-> ParseInt(val).n]
           ELSE [ret |-> TRUE, val |-> -1]

RECURSIVE ScanLines(_)
ScanLines(lines) ==
  IF lines = <<>> THEN -1
  ELSE IF LineResult(Head(lines)).ret THEN LineResult(Head(lines)).val
  ELSE ScanLines(Tail(lines))

\* a load_config that falls back to one port when the file is missing
load_config_default(cfg) == IF ~cfg.exists THEN 1 ELSE ScanLines(cfg.lines)

\* load_config(): cfg is the configuration source, [exists, lines].
load_config(cfg) == IF ~cfg.exists THEN -1 ELSE ScanLines(cfg.lines)

(***************************************************************************)
(* The /dev directory.  An entry is [kind, tgt]: kind is "absent", "file", *)
(* "dir" or "link"; the target of a link is a pty slave << run, index >>,  *)
(* NoTarget for a name that does not exist (a dangling link), or Foreign   *)
(* for a live device that no run of this service owns.                     *)
(***************************************************************************)
NoTarget == <<0, 0>>

Foreign == <<0, 1>>

Absent == [kind |-> "absent", tgt |-> NoTarget]

RECURSIVE ToDec(_)
ToDec(n) ==
  IF n < 10 THEN <<Digits[n + 1]>> ELSE ToDec(n \div 10) \o <<Digits[(n % 10) + 1]>>

\* f"/dev/gps{i}", as the suffix after /dev/gps
LinkName(n) == ToDec(n)

PortIds == 0..(MaxPorts - 1)

Names == {LinkName(n) : n \in PortIds}

\* A pty slave << r, n >> exists while the run r that allocated it is the
\* running one; run is the current run.
TargetLive(t, r) == t = Foreign \/ (t[1] = r /\ r > 0)

\* os.path.islink, os.path.exists (which follows links)
IsLink(f, p) == f[p].kind = "link"

Exists(f, p, r) ==
  \/ f[p].kind \in {"file", "dir"}
  \/ f[p].kind = "link" /\ TargetLive(f[p].tgt, r)

\* os.unlink: OSError on a directory or a missing name
Unlink(f, p) ==
  IF f[p].kind \in {"absent", "dir"} THEN [ok |-> FALSE, fs |-> f]
  ELSE [ok |-> TRUE, fs |-> [f EXCEPT ![p] = Absent]]

\* os.symlink: FileExistsError when the name is taken, whatever holds it
Symlink(f, t, p) ==
  IF f[p].kind # "absent" THEN [ok |-> FALSE, fs |-> f]
  ELSE [ok |-> TRUE, fs |-> [f EXCEPT ![p] = [kind |-> "link", tgt |-> t]]]

\* re.match(r"^/dev/gps\d+$", file_path): "$" also matches before a final "\n"
ReMatch(p) ==
  LET body == IF p # <<>> /\ p[Len(p)] = "\n" THEN SubSeq(p, 1, Len(p) - 1) ELSE p
  IN  IsDecimal(body)

\* a reclaimer that tests os.path.exists only, which follows links
force_cleanup_exists_only(f, r) ==
  [p \in DOMAIN f |->
     IF f[p].kind # "absent" /\ ReMatch(p) /\ Exists(f, p, r)
     THEN Unlink(f, p).fs[p]
     ELSE f[p]]

\* a reclaimer that stops after the first entry it removes
force_cleanup_first_only(f, r) ==
  LET hit(p) == /\ f[p].kind # "absent"
                /\ ReMatch(p)
                /\ (IsLink(f, p) \/ Exists(f, p, r))
                /\ Unlink(f, p).ok
  IN  [p \in DOMAIN f |->
         IF hit(p) /\ \A q \in DOMAIN f : hit(q) => DecValue(q) >= DecValue(p)
         THEN Absent
         ELSE f[p]]

\* force_cleanup_at_startup(): every name of the model begins with /dev/gps,
\* so glob("/dev/gps*") lists every entry that is present.
force_cleanup_at_startup(f, r) ==
  [p \in DOMAIN f |->
     IF /\ f[p].kind # "absent"
        /\ ReMatch(p)
        /\ (IsLink(f, p) \/ Exists(f, p, r))
     THEN Unlink(f, p).fs[p]
     ELSE f[p]]

\* cleanup_symlinks without the test of line 89
CleanupOneUnchecked(f, link, r) == [fs |-> Unlink(f, link).fs, called |-> TRUE]

\* One turn of the loop of cleanup_symlinks: called says whether os.unlink ran.
CleanupOne(f, link, r) ==
  IF Exists(f, link, r)
  THEN [fs |-> Unlink(f, link).fs, called |-> TRUE]
  ELSE [fs |-> f, called |-> FALSE]

\* cleanup_symlinks(virtual_ports), from entry k on: the directory afterwards
RECURSIVE cleanup_symlinks(_, _, _, _)
cleanup_symlinks(f, ports, k, r) ==
  IF k > Len(ports) THEN f
  ELSE cleanup_symlinks(CleanupOne(f, ports[k].link, r).fs, ports, k + 1, r)

\* the entries of ports, from k on, on which cleanup_symlinks calls os.unlink
RECURSIVE UnlinkCalls(_, _, _, _)
UnlinkCalls(f, ports, k, r) ==
  IF k > Len(ports) THEN {}
  ELSE (IF CleanupOne(f, ports[k].link, r).called THEN {k} ELSE {})
       \cup UnlinkCalls(CleanupOne(f, ports[k].link, r).fs, ports, k + 1, r)

\* set_non_blocking that reads the flags and does not set O_NONBLOCK
set_non_blocking_unset(flags, fd) == flags

\* set_non_blocking(fd): the descriptors in non-blocking mode afterwards
set_non_blocking(flags, fd) == flags \cup {fd}

\* os.chmod(path, 0o666) follows a link: the pty slave whose mode changes
ChmodTarget(f, p) == f[p].tgt

(***************************************************************************)
(* State.                                                                  *)
(***************************************************************************)
VARIABLES
  fs,                    \* the entries /dev/gps*
  cfg,                   \* the configuration source CONFIG_FILE
  devPresent,            \* whether SOURCE_DEV exists
  srcpos,                \* bytes of the source stream read so far
  pend,                  \* per pty: bytes written and not yet read by the consumer
  recv,                  \* per pty: the bytes written to it, in order
  mode,                  \* per pty: permission bits of the slave
  nonblock,              \* master descriptors in non-blocking mode
  run,                   \* number of the current run of the service
  pc,                    \* where main() stands
  end_id,
  retry_count,
  source_fd,             \* "none", "open" or "closed"
  i,                     \* index of the provisioning loop
  virtual_fds,
  active_virtual_ports,
  data,                  \* the chunk of the current loop iteration
  wi,                    \* position of `for fd in virtual_fds`
  ci,                    \* position of the loop of cleanup_symlinks (finally)
  exit_code,             \* -1 while the process has not exited
  checks,                \* existence checks of SOURCE_DEV made by the poll
  waited,                \* time slept by the poll
  torn,                  \* per registry entry: the teardowns that unlinked it
  created,               \* names at which this run created a symlink
  how,                   \* what ended or is ending the run
  dropped,               \* per pty: some write to it blocked, failed or fell short
  skipped,               \* indices whose provisioning raised an exception
  sigpc,                 \* where main() stood when the first signal arrived
  stale                  \* names that held a symlink of an earlier run when this run started

envVars == <<fs, cfg, devPresent, srcpos, pend, recv, mode, nonblock>>

procVars == <<run, pc, end_id, retry_count, source_fd, i, virtual_fds,
              active_virtual_ports, data, wi, ci, exit_code>>

histVars == <<checks, waited, torn, created, how, dropped, skipped, sigpc, stale>>

vars == <<envVars, procVars, histVars>>

PreEntries ==
  {Absent,
   [kind |-> "file", tgt |-> NoTarget],
   [kind |-> "dir", tgt |-> NoTarget],
   [kind |-> "link", tgt |-> NoTarget],
   [kind |-> "link", tgt |-> Foreign]}

InitFiles ==
  {f \in [Names -> PreEntries] :
     Cardinality({p \in Names : f[p] # Absent}) <= MaxStale}

Line(key, val) == key \o <<"=">> \o val

ConfigFiles ==
  {[exists |-> FALSE, lines |-> <<>>],
   [exists |-> TRUE, lines |-> <<>>],
   [exists |-> TRUE, lines |-> <<Line(<<"x">>, <<"1">>)>>],
   [exists |-> TRUE, lines |-> <<Line(GPS_PORT, FALSE_TEXT)>>],
   [exists |-> TRUE, lines |-> <<Line(GPS_PORT \o <<"x">>, <<"1">>)>>],
   [exists |-> TRUE,
    lines |-> <<Line(<<"x">>, <<"1">>),
                Line(GPS_PORT \o <<" ">>, <<" ", "F", "a", "l", "s", "e", "\n">>)>>]}
  \cup {[exists |-> TRUE, lines |-> <<Line(GPS_PORT, ToDec(n))>>] : n \in 0..MaxPorts}

Running == pc \notin {"exited", "killed"}

InTry == pc \in {"read", "write"}

\* the state of a process that has just started
Fresh(r) ==
  /\ run = r
  /\ pc = "reclaim"
  /\ end_id = -1
  /\ retry_count = 0
  /\ source_fd = "none"
  /\ i = START_ID
  /\ virtual_fds = <<>>
  /\ active_virtual_ports = <<>>
  /\ data = <<>>
  /\ wi = 1
  /\ ci = 1
  /\ exit_code = -1
  /\ srcpos = 0
  /\ pend = [n \in PortIds |-> 0]
  /\ recv = [n \in PortIds |-> <<>>]
  /\ mode = [n \in PortIds |-> 0]
  /\ nonblock = {}
  /\ checks = 0
  /\ waited = 0
  /\ torn = <<>>
  /\ created = {}
  /\ how = "none"
  /\ dropped = [n \in PortIds |-> FALSE]
  /\ skipped = {}
  /\ sigpc = "none"

Init ==
  /\ fs \in InitFiles
  /\ stale = {}
  /\ cfg \in ConfigFiles
  /\ devPresent \in BOOLEAN
  /\ Fresh(1)

(***************************************************************************)
(* Process exit.  sys.exit(n) and the return of main() end the process;    *)
(* its ptys go with it, which the directory entries record by the run      *)
(* number in their target.                                                 *)
(***************************************************************************)
DisabledStatus == 0      \* sys.exit(0), line 117
TimeoutStatus == 1       \* sys.exit(1), line 130
OpenFailedStatus == 1    \* sys.exit(1), line 137
SignalStatusError == TimeoutStatus
SignalStatus == 0        \* sys.exit(0), line 103
ReturnStatus == 0        \* main() returns: the interpreter exits with 0

\* the ptys of the process are closed with it
NoPtys ==
  /\ mode' = [n \in PortIds |-> 0]
  /\ nonblock' = {}

Exit(status, reason) ==
  /\ pc' = "exited"
  /\ exit_code' = status
  /\ how' = reason

(***************************************************************************)
(* main(), lines 110-137: startup.                                         *)
(***************************************************************************)
\* line 112
ForceCleanup ==
  /\ pc = "reclaim"
  /\ fs' = force_cleanup_at_startup(fs, run)
  /\ pc' = "load_config"
  /\ UNCHANGED <<cfg, devPresent, srcpos, pend, recv, mode, nonblock>>
  /\ UNCHANGED <<run, end_id, retry_count, source_fd, i, virtual_fds,
                 active_virtual_ports, data, wi, ci, exit_code>>
  /\ UNCHANGED histVars

\* lines 114-117
LoadConfig ==
  /\ pc = "load_config"
  /\ end_id' = load_config(cfg)
  /\ IF end_id' <= 0
     THEN Exit(DisabledStatus, "disabled")
     ELSE /\ pc' = "poll"
          /\ UNCHANGED <<exit_code, how>>
  /\ retry_count' = 0
  /\ UNCHANGED envVars
  /\ UNCHANGED <<run, source_fd, i, virtual_fds, active_virtual_ports, data, wi, ci>>
  /\ UNCHANGED <<checks, waited, torn, created, dropped, skipped, sigpc, stale>>

\* line 124: the test of `while not os.path.exists(SOURCE_DEV)`
PollCheck ==
  /\ pc = "poll"
  /\ checks' = checks + 1
  /\ pc' = IF devPresent THEN "open" ELSE "sleep"
  /\ UNCHANGED envVars
  /\ UNCHANGED <<run, end_id, retry_count, source_fd, i, virtual_fds,
                 active_virtual_ports, data, wi, ci, exit_code>>
  /\ UNCHANGED <<waited, torn, created, how, dropped, skipped, sigpc, stale>>

\* lines 125-130: the body of the poll loop
PollSleep ==
  /\ pc = "sleep"
  /\ waited' = waited + SleepSecs
  /\ retry_count' = retry_count + 1
  /\ IF retry_count' > MaxRetries
     THEN Exit(TimeoutStatus, "timeout")
     ELSE /\ pc' = "poll"
          /\ UNCHANGED <<exit_code, how>>
  /\ UNCHANGED envVars
  /\ UNCHANGED <<run, end_id, source_fd, i, virtual_fds, active_virtual_ports,
                 data, wi, ci>>
  /\ UNCHANGED <<checks, torn, created, dropped, skipped, sigpc, stale>>

\* lines 132-139: os.open succeeds or raises OSError.  The counters of the
\* poll are dead from here on and are cleared.
OpenSource ==
  /\ pc = "open"
  /\ \E ok \in BOOLEAN :
       IF ok
       THEN /\ source_fd' = "open"
            /\ pc' = "openpty"
            /\ UNCHANGED <<exit_code, how>>
       ELSE /\ Exit(OpenFailedStatus, "open_failed")
            /\ UNCHANGED source_fd
  /\ retry_count' = 0
  /\ checks' = 0
  /\ waited' = 0
  /\ UNCHANGED envVars
  /\ UNCHANGED <<run, end_id, i, virtual_fds, active_virtual_ports, data, wi, ci>>
  /\ UNCHANGED <<torn, created, dropped, skipped, sigpc, stale>>

(***************************************************************************)
(* main(), lines 141-172: provisioning of index i.  The master descriptor  *)
(* of index i is named i, its slave << run, i >>.                          *)
(***************************************************************************)
\* the `for` statement takes the next index, or the loop ends (line 174)
NextIndex ==
  /\ i' = i + 1
  /\ pc' = IF i + 1 < end_id THEN "openpty" ELSE "read"

\* a handler that gives up the remaining indices
SkipIndexAbort ==
  /\ i' = i + 1
  /\ pc' = "read"
  /\ skipped' = skipped \cup {i}

\* lines 171-172: the exception handler of the loop body
SkipIndex ==
  /\ NextIndex
  /\ skipped' = skipped \cup {i}

\* the loop body goes on to its next statement
GoOn(next) ==
  /\ pc' = next
  /\ i' = i
  /\ UNCHANGED skipped

\* lines 145-151: pty.openpty, set_non_blocking, os.ttyname; any may raise
ProvOpenPty ==
  /\ pc = "openpty"
  /\ \E ok \in BOOLEAN :
       IF ok
       THEN /\ mode' = [mode EXCEPT ![i] = PtyMode]
            /\ nonblock' = set_non_blocking(nonblock, i)
            /\ GoOn("unlink_stale")
       ELSE /\ SkipIndex
            /\ UNCHANGED <<mode, nonblock>>
  /\ UNCHANGED <<fs, cfg, devPresent, srcpos, pend, recv>>
  /\ UNCHANGED <<run, end_id, retry_count, source_fd, virtual_fds,
                 active_virtual_ports, data, wi, ci, exit_code>>
  /\ UNCHANGED <<checks, waited, torn, created, how, dropped, sigpc, stale>>

\* lines 154-158: the error of os.unlink is swallowed
ProvUnlinkStale ==
  /\ pc = "unlink_stale"
  /\ fs' = IF Exists(fs, LinkName(i), run) THEN Unlink(fs, LinkName(i)).fs ELSE fs
  /\ pc' = "symlink"
  /\ UNCHANGED <<cfg, devPresent, srcpos, pend, recv, mode, nonblock>>
  /\ UNCHANGED <<run, end_id, retry_count, source_fd, i, virtual_fds,
                 active_virtual_ports, data, wi, ci, exit_code>>
  /\ UNCHANGED histVars

\* line 161
ProvSymlink ==
  /\ pc = "symlink"
  /\ LET res == Symlink(fs, <<run, i>>, LinkName(i))
     IN  /\ fs' = res.fs
         /\ IF res.ok
            THEN /\ created' = created \cup {LinkName(i)}
                 /\ GoOn("chmod_link")
            ELSE /\ SkipIndex
                 /\ UNCHANGED created
  /\ UNCHANGED <<cfg, devPresent, srcpos, pend, recv, mode, nonblock>>
  /\ UNCHANGED <<run, end_id, retry_count, source_fd, virtual_fds,
                 active_virtual_ports, data, wi, ci, exit_code>>
  /\ UNCHANGED <<checks, waited, torn, how, dropped, sigpc, stale>>

\* a chmod that leaves the mode as it is
ChmodNothing(t, next) ==
  /\ GoOn(next)
  /\ UNCHANGED mode

\* os.chmod(path, 0o666) on the slave t, or OSError
Chmod(t, next) ==
  \E ok \in BOOLEAN :
    IF ok
    THEN /\ mode' = IF t[1] = run THEN [mode EXCEPT ![t[2]] = LinkMode] ELSE mode
         /\ GoOn(next)
    ELSE /\ SkipIndex
         /\ UNCHANGED mode

\* line 164: through the link
ProvChmodLink ==
  /\ pc = "chmod_link"
  /\ Chmod(ChmodTarget(fs, LinkName(i)), "chmod_slave")
  /\ UNCHANGED <<fs, cfg, devPresent, srcpos, pend, recv, nonblock>>
  /\ UNCHANGED <<run, end_id, retry_count, source_fd, virtual_fds,
                 active_virtual_ports, data, wi, ci, exit_code>>
  /\ UNCHANGED <<checks, waited, torn, created, how, dropped, sigpc, stale>>

\* line 165: on the slave's own name
ProvChmodSlave ==
  /\ pc = "chmod_slave"
  /\ Chmod(<<run, i>>, "append_fd")
  /\ UNCHANGED <<fs, cfg, devPresent, srcpos, pend, recv, nonblock>>
  /\ UNCHANGED <<run, end_id, retry_count, source_fd, virtual_fds,
                 active_virtual_ports, data, wi, ci, exit_code>>
  /\ UNCHANGED <<checks, waited, torn, created, how, dropped, sigpc, stale>>

\* line 167
ProvAppendFd ==
  /\ pc = "append_fd"
  /\ virtual_fds' = Append(virtual_fds, i)
  /\ pc' = "register"
  /\ UNCHANGED envVars
  /\ UNCHANGED <<run, end_id, retry_count, source_fd, i, active_virtual_ports,
                 data, wi, ci, exit_code>>
  /\ UNCHANGED histVars

\* line 168, and on to the next index
ProvRegister ==
  /\ pc = "register"
  /\ active_virtual_ports' =
       Append(active_virtual_ports, [fd |-> i, link |-> LinkName(i)])
  /\ torn' = Append(torn, <<>>)
  /\ NextIndex
  /\ UNCHANGED envVars
  /\ UNCHANGED <<run, end_id, retry_count, source_fd, virtual_fds, data, wi, ci,
                 exit_code>>
  /\ UNCHANGED <<checks, waited, created, how, dropped, skipped, sigpc, stale>>

(***************************************************************************)
(* main(), lines 176-198: the main loop.  The k-th byte of the source      *)
(* stream is the number k.                                                 *)
(***************************************************************************)
\* the first n bytes of the source stream
Stream(n) == [k \in 1..n |-> k]

\* the try statement is left: the finally clause starts (line 201).  Nothing
\* is written to the ptys any more; the record of the traffic is cleared.
NoTraffic ==
  /\ data' = <<>>
  /\ wi' = 1
  /\ srcpos' = 0
  /\ pend' = [n \in PortIds |-> 0]
  /\ recv' = [n \in PortIds |-> <<>>]
  /\ dropped' = [n \in PortIds |-> FALSE]

\* leaving the try statement past the cleanup of the finally clause
SkipFinally ==
  /\ pc' = "close"
  /\ ci' = 1
  /\ NoTraffic

EnterFinally ==
  /\ pc' = "cleanup"
  /\ ci' = 1
  /\ NoTraffic

\* lines 181-184 and 197-198: os.read returns a chunk, returns b"" at the
\* end of the stream, or raises OSError
ReadSource ==
  /\ pc = "read"
  /\ \/ \E n \in 1..MaxChunk :
          /\ srcpos + n <= MaxBytes
          /\ data' = SubSeq(Stream(srcpos + n), srcpos + 1, srcpos + n)
          /\ srcpos' = srcpos + n
          /\ wi' = 1
          /\ pc' = IF virtual_fds = <<>> THEN "read" ELSE "write"
          /\ UNCHANGED <<ci, how, pend, recv, dropped>>
     \/ /\ EnterFinally
        /\ how' = "eof"
     \/ /\ EnterFinally
        /\ how' = "read_error"
  /\ UNCHANGED <<fs, cfg, devPresent, mode, nonblock>>
  /\ UNCHANGED <<run, end_id, retry_count, source_fd, i, virtual_fds,
                 active_virtual_ports, exit_code>>
  /\ UNCHANGED <<checks, waited, torn, created, skipped, sigpc, stale>>

\* room left in the buffer of pty fd
Room(fd) == BufCap - pend[fd]

\* os.write(fd, data) on a blocking descriptor suspends the process until the
\* consumer has made room for all of data
Suspended ==
  /\ pc = "write"
  /\ virtual_fds[wi] \notin nonblock
  /\ Room(virtual_fds[wi]) < Len(data)

\* os.write(fd, data) on descriptor fd with `room` bytes free: the number of
\* bytes taken, or -1 for BlockingIOError
WriteResult(fd, room, len) ==
  IF room = 0 THEN -1 ELSE IF room < len THEN room ELSE len

\* a loop over the descriptors that stops one short
NextTurnShort(w) == IF w + 1 < Len(virtual_fds) THEN w + 1 ELSE 0

\* a loop that takes the same descriptor again
NextTurnAgain(w) == IF w < Len(virtual_fds) THEN w ELSE 0

\* `for fd in virtual_fds` after turn w: the next turn, or 0 when the loop ends
NextTurn(w) == IF w < Len(virtual_fds) THEN w + 1 ELSE 0

\* lines 187-196: one turn of `for fd in virtual_fds`
WriteEndpoint ==
  /\ pc = "write"
  /\ ~Suspended
  /\ LET fd == virtual_fds[wi]
         n  == WriteResult(fd, Room(fd), Len(data))
     IN  \/ /\ n > 0                                   \* bytes written
            /\ recv' = [recv EXCEPT ![fd] = recv[fd] \o SubSeq(data, 1, n)]
            /\ pend' = [pend EXCEPT ![fd] = pend[fd] + n]
            /\ dropped' = [dropped EXCEPT ![fd] = dropped[fd] \/ n < Len(data)]
         \/ /\ n = -1                                  \* BlockingIOError
            /\ dropped' = [dropped EXCEPT ![fd] = TRUE]
            /\ UNCHANGED <<recv, pend>>
         \/ /\ dropped' = [dropped EXCEPT ![fd] = TRUE] \* another OSError
            /\ UNCHANGED <<recv, pend>>
  /\ IF NextTurn(wi) # 0
     THEN /\ wi' = NextTurn(wi)
          /\ pc' = "write"
     ELSE /\ wi' = 1
          /\ pc' = "read"
  /\ UNCHANGED <<fs, cfg, devPresent, srcpos, mode, nonblock>>
  /\ UNCHANGED <<run, end_id, retry_count, source_fd, i, virtual_fds,
                 active_virtual_ports, data, ci, exit_code>>
  /\ UNCHANGED <<checks, waited, torn, created, how, skipped, sigpc, stale>>

(***************************************************************************)
(* main(), lines 201-207: the finally clause.                              *)
(***************************************************************************)
\* line 203: one turn of the loop of cleanup_symlinks, or its end
CleanupStep ==
  /\ pc = "cleanup"
  /\ IF ci <= Len(active_virtual_ports)
     THEN LET res == CleanupOne(fs, active_virtual_ports[ci].link, run)
          IN  /\ fs' = res.fs
              /\ torn' = IF res.called
                         THEN [torn EXCEPT ![ci] = Append(torn[ci], "exit")]
                         ELSE torn
              /\ ci' = ci + 1
              /\ pc' = "cleanup"
     ELSE /\ pc' = "close"
          /\ UNCHANGED <<fs, torn, ci>>
  /\ UNCHANGED <<cfg, devPresent, srcpos, pend, recv, mode, nonblock>>
  /\ UNCHANGED <<run, end_id, retry_count, source_fd, i, virtual_fds,
                 active_virtual_ports, data, wi, exit_code>>
  /\ UNCHANGED <<checks, waited, created, how, dropped, skipped, sigpc, stale>>

\* lines 204-207, then main() returns (or the pending SystemExit goes on)
CloseSource ==
  /\ pc = "close"
  /\ source_fd' = "closed"
  /\ Exit(IF how = "signal" THEN SignalStatus ELSE ReturnStatus, how)
  /\ NoPtys
  /\ UNCHANGED <<fs, cfg, devPresent, srcpos, pend, recv>>
  /\ UNCHANGED <<run, end_id, retry_count, i, virtual_fds, active_virtual_ports,
                 data, wi, ci>>
  /\ UNCHANGED <<checks, waited, torn, created, dropped, skipped, sigpc, stale>>

(***************************************************************************)
(* handle_sigterm, lines 96-103.  The handler runs between two statements  *)
(* of main(); sys.exit raises SystemExit there.  No `except Exception` or  *)
(* `except OSError` clause catches it: inside the try of the main loop the *)
(* finally clause runs next, inside the finally clause the exception       *)
(* leaves it, and the bare `except:` of line 206 swallows it.              *)
(***************************************************************************)
HandleSigterm ==
  /\ Running
  /\ fs' = cleanup_symlinks(fs, active_virtual_ports, 1, run)
  /\ torn' = [k \in DOMAIN torn |->
                IF k \in UnlinkCalls(fs, active_virtual_ports, 1, run)
                THEN Append(torn[k], "signal")
                ELSE torn[k]]
  /\ IF InTry
     THEN /\ EnterFinally
          /\ how' = "signal"
          /\ UNCHANGED <<exit_code, mode, nonblock>>
     ELSE /\ Exit(SignalStatus, "signal")
          /\ NoPtys
          /\ UNCHANGED <<ci, data, wi, srcpos, pend, recv, dropped>>
  /\ UNCHANGED <<cfg, devPresent>>
  /\ UNCHANGED <<run, end_id, retry_count, source_fd, i, virtual_fds,
                 active_virtual_ports>>
  /\ sigpc' = IF sigpc = "none" THEN pc ELSE sigpc
  /\ UNCHANGED <<checks, waited, created, skipped, stale>>

(***************************************************************************)
(* The environment.                                                        *)
(***************************************************************************)
\* the process is killed outright (SIGKILL, power loss): nothing is cleaned
\* in /dev, and the memory of the process is gone
Kill ==
  /\ Running
  /\ pc' = "killed"
  /\ NoPtys
  /\ data' = <<>>
  /\ wi' = 1
  /\ ci' = 1
  /\ srcpos' = 0
  /\ pend' = [n \in PortIds |-> 0]
  /\ recv' = [n \in PortIds |-> <<>>]
  /\ dropped' = [n \in PortIds |-> FALSE]
  /\ end_id' = -1
  /\ retry_count' = 0
  /\ source_fd' = "none"
  /\ i' = START_ID
  /\ virtual_fds' = <<>>
  /\ active_virtual_ports' = <<>>
  /\ checks' = 0
  /\ waited' = 0
  /\ torn' = <<>>
  /\ created' = {}
  /\ how' = "killed"
  /\ skipped' = {}
  /\ sigpc' = "none"
  /\ UNCHANGED <<fs, cfg, devPresent, run, exit_code, stale>>

\* the service is started again, with whatever the last run left in /dev
Restart ==
  /\ ~Running
  /\ run < MaxRuns
  /\ cfg' \in ConfigFiles
  /\ run' = run + 1
  /\ pc' = "reclaim"
  /\ end_id' = -1
  /\ retry_count' = 0
  /\ source_fd' = "none"
  /\ i' = START_ID
  /\ virtual_fds' = <<>>
  /\ active_virtual_ports' = <<>>
  /\ data' = <<>>
  /\ wi' = 1
  /\ ci' = 1
  /\ exit_code' = -1
  /\ srcpos' = 0
  /\ pend' = [n \in PortIds |-> 0]
  /\ recv' = [n \in PortIds |-> <<>>]
  /\ mode' = [n \in PortIds |-> 0]
  /\ nonblock' = {}
  /\ checks' = 0
  /\ waited' = 0
  /\ torn' = <<>>
  /\ created' = {}
  /\ how' = "none"
  /\ dropped' = [n \in PortIds |-> FALSE]
  /\ skipped' = {}
  /\ sigpc' = "none"
  /\ stale' = {p \in Names : fs[p].kind = "link" /\ fs[p].tgt[1] > 0}
  /\ UNCHANGED <<fs, devPresent>>

\* the physical device shows up
DeviceAppears ==
  /\ ~devPresent
  /\ devPresent' = TRUE
  /\ UNCHANGED <<fs, cfg, srcpos, pend, recv, mode, nonblock>>
  /\ UNCHANGED procVars
  /\ UNCHANGED histVars

\* the consumer of endpoint n reads what is buffered
ConsumerRead(n) ==
  /\ Running
  /\ pend[n] > 0
  /\ pend' = [pend EXCEPT ![n] = 0]
  /\ UNCHANGED <<fs, cfg, devPresent, srcpos, recv, mode, nonblock>>
  /\ UNCHANGED procVars
  /\ UNCHANGED histVars

Provision ==
  \/ ProvOpenPty
  \/ ProvUnlinkStale
  \/ ProvSymlink
  \/ ProvChmodLink
  \/ ProvChmodSlave
  \/ ProvAppendFd
  \/ ProvRegister

Main ==
  \/ ForceCleanup
  \/ LoadConfig
  \/ PollCheck
  \/ PollSleep
  \/ OpenSource
  \/ Provision
  \/ ReadSource
  \/ WriteEndpoint
  \/ CleanupStep
  \/ CloseSource

Next ==
  \/ Main
  \/ HandleSigterm
  \/ Kill
  \/ Restart
  \/ DeviceAppears
  \/ \E n \in PortIds : ConsumerRead(n)

Spec == Init /\ [][Next]_vars

\* A write that does not suspend the process returns: the interpreter goes on
\* with the loop.  Nothing else is assumed to happen: no consumer has to read,
\* no signal has to come, the source need not deliver.
FairSpec == Spec /\ WF_vars(WriteEndpoint)

(***************************************************************************)
(* A shared /dev: another process (a second instance of the service, or    *)
(* what a crashed one left half-way) puts an entry at a free public path   *)
(* while this instance runs.  Lines 153-158 are written for that case.     *)
(***************************************************************************)
\* an entry that this instance did not make
IsOthers(e) == e.kind \in {"file", "dir"} \/ (e.kind = "link" /\ e.tgt[1] = 0)

OtherPublishes ==
  /\ \E p \in Names, e \in PreEntries \ {Absent} :
       /\ fs[p] = Absent
       /\ Cardinality({q \in Names : IsOthers(fs[q])}) < MaxStale
       /\ fs' = [fs EXCEPT ![p] = e]
  /\ UNCHANGED <<cfg, devPresent, srcpos, pend, recv, mode, nonblock>>
  /\ UNCHANGED procVars
  /\ UNCHANGED histVars

SharedNext ==
  \/ Next
  \/ OtherPublishes

SharedSpec == Init /\ [][SharedNext]_vars

(***************************************************************************)
(* The reclaimer on its own: main() stands at line 112 and /dev holds any  *)
(* entries under names that glob("/dev/gps*") lists, public paths or not.  *)
(***************************************************************************)
\* /dev/gps0, /dev/gps10, /dev/gpsd, /dev/gps0a, /dev/gps0<newline>, /dev/gps
GlobNames ==
  {<<"0">>, <<"1", "0">>, <<"d">>, <<"0", "a">>, <<"0", "\n">>, <<>>}

NoConfig == [exists |-> FALSE, lines |-> <<>>]

ReclaimInit ==
  /\ fs \in [GlobNames -> PreEntries]
  /\ stale = {}
  /\ cfg = NoConfig
  /\ devPresent = FALSE
  /\ Fresh(1)

ReclaimSpec == ReclaimInit /\ [][ForceCleanup]_vars

(***************************************************************************)
(* load_config on its own: the process starts with nothing in /dev and     *)
(* goes as far as lines 114-117; CONFIG_FILE holds up to two of the lines  *)
(* below, or is missing.                                                   *)
(***************************************************************************)
\* gps_port=1, gps_port=2, gps_port=0, gps_port=false, gps_port=a, x=1,
\* gps_portx=2, and " gps_port = 2\n" with blanks around key and value
ConfigLines ==
  {Line(GPS_PORT, <<"1">>),
   Line(GPS_PORT, <<"2">>),
   Line(GPS_PORT, <<"0">>),
   Line(GPS_PORT, FALSE_TEXT),
   Line(GPS_PORT, <<"a">>),
   Line(<<"x">>, <<"1">>),
   Line(GPS_PORT \o <<"x">>, <<"2">>),
   <<" ">> \o Line(GPS_PORT \o <<" ">>, <<" ", "2", "\n">>)}

LineFiles ==
  {NoConfig}
  \cup {[exists |-> TRUE, lines |-> ls] :
          ls \in {<<>>} \cup {<<a>> : a \in ConfigLines}
                       \cup {<<a, b>> : a \in ConfigLines, b \in ConfigLines}}

ConfigInit ==
  /\ fs = [p \in Names |-> Absent]
  /\ stale = {}
  /\ cfg \in LineFiles
  /\ devPresent = FALSE
  /\ Fresh(1)

ConfigNext ==
  \/ ForceCleanup
  \/ LoadConfig

ConfigSpec == ConfigInit /\ [][ConfigNext]_vars

(***************************************************************************)
(* Properties.                                                             *)
(***************************************************************************)
\* p holds a symlink that the current run created
OwnLink(p) == fs[p].kind = "link" /\ fs[p].tgt[1] = run

Registered == {active_virtual_ports[k].fd : k \in DOMAIN active_virtual_ports}

\* C1: a signal delivered while the main loop runs (in the read or in the
\* writes) leaves, once the process has exited, no /dev/gps{i} of this run
\* and the exit status 0.
C1_SignalInLoopLeavesNoPath ==
  (pc = "exited" /\ sigpc \in {"read", "write"}) =>
    (exit_code = 0 /\ \A p \in Names : ~OwnLink(p))

\* C2: every registry entry is torn down (its public path unlinked by a
\* teardown routine) exactly once over the life of the process: at no time
\* more than once, and once when the process has exited; the exit path and the
\* signal handler never both unlink the same entry.
C2_TornDownExactlyOnce ==
  /\ DOMAIN torn = DOMAIN active_virtual_ports
  /\ \A k \in DOMAIN torn : Len(torn[k]) <= 1
  /\ pc = "exited" => \A k \in DOMAIN torn : Len(torn[k]) = 1

\* a signal arrived during the exit-path teardown: the first entry was
\* unlinked by the exit path, the second by the handler
C2_Witness ==
  /\ pc = "exited"
  /\ sigpc = "cleanup"
  /\ Len(torn) = 2
  /\ torn[1] = <<"exit">>
  /\ torn[2] = <<"signal">>

\* C3: after a clean shutdown (end of stream, read error, or a signal at any
\* point after startup) no symlink created by this run remains at a public
\* path.
C3_NoSymlinkAfterCleanShutdown ==
  (pc = "exited" /\ how \in {"eof", "read_error", "signal"}) =>
    \A p \in Names : ~OwnLink(p)

\* what endpoint number k of the loop has been offered so far: every byte
\* read, but for the current chunk when its turn has not come yet
Offered(k) ==
  IF pc = "write" /\ k >= wi THEN Stream(srcpos - Len(data)) ELSE Stream(srcpos)

C4_Isolated ==
  /\ ~Suspended
  /\ pc \in {"read", "write"} =>
       \A k \in DOMAIN virtual_fds :
         ~dropped[virtual_fds[k]] => recv[virtual_fds[k]] = Offered(k)

\* C4: the main loop never suspends in a write to an endpoint, whatever the
\* consumers do; each endpoint that has room receives the chunk in the loop
\* iteration that read it, whether or not the writes to other endpoints block;
\* and the loop always comes back from the writes to the next read (or the
\* process is ended).
C4_NonBlockingIsolation ==
  /\ []C4_Isolated
  /\ (pc = "write") ~> (pc # "write")

\* one endpoint is full and has lost data, the other has received every byte
C4_Witness ==
  /\ pc = "read"
  /\ virtual_fds = <<0, 1>>
  /\ srcpos = MaxBytes
  /\ dropped[0] /\ pend[0] = BufCap
  /\ ~dropped[1] /\ recv[1] = Stream(srcpos)

Increasing(q) == \A a, b \in DOMAIN q : a < b => q[a] < q[b]

WorldReadable(m) == (m % 8) \div 4 = 1

\* index n is published: /dev/gps{n} is a symlink to the slave of pty n of
\* this run, which anyone may read
Published(n) ==
  /\ fs[LinkName(n)] = [kind |-> "link", tgt |-> <<run, n>>]
  /\ WorldReadable(mode[n])

Indices == START_ID..(end_id - 1)

Provisioned == pc \in {"read", "write"}

\* C6 as stated: when provisioning has finished there are exactly N published
\* endpoints, one for each index 0..N-1, and the registry holds exactly those.
C6_ExactlyN ==
  Provisioned =>
    /\ \A n \in Indices : Published(n)
    /\ Registered = Indices
    /\ Len(active_virtual_ports) = end_id

\* C6, amended: when provisioning has finished the registry holds exactly one
\* entry for each index 0..N-1 whose provisioning raised no exception, each of
\* them published at /dev/gps{i} as a world-readable symlink to its own slave;
\* these are all N indices when no step failed.
C6_PublishedUnlessFailed ==
  Provisioned =>
    /\ Registered = Indices \ skipped
    /\ Len(active_virtual_ports) = Cardinality(Registered)
    /\ \A k \in DOMAIN active_virtual_ports :
         /\ active_virtual_ports[k].link = LinkName(active_virtual_ports[k].fd)
         /\ Published(active_virtual_ports[k].fd)
    /\ skipped = {} => (Len(active_virtual_ports) = end_id /\ Registered = Indices)

C6_Witness ==
  /\ pc = "read"
  /\ end_id = 2
  /\ skipped = {}
  /\ Len(active_virtual_ports) = 2
  /\ Published(0) /\ Published(1)

\* the names /dev/gps<digits> that hold anything
Matching == {p \in Names : ReMatch(p) /\ fs[p].kind # "absent"}

\* an earlier run was ended without cleanup and left symlinks, and nothing
\* that cannot be unlinked sits at a public path
SecondRun ==
  /\ run >= 2
  /\ stale # {}
  /\ \A p \in Names : fs[p].kind # "dir"

\* C7 as stated: after the reclamation and the provisioning of the second run
\* the paths /dev/gps<digits> are exactly /dev/gps0../dev/gps(N-1), each a
\* symlink to a pty slave of the second run.
C7_ExactlyNFresh ==
  (SecondRun /\ Provisioned) =>
    /\ Matching = {LinkName(n) : n \in Indices}
    /\ \A n \in Indices : fs[LinkName(n)] = [kind |-> "link", tgt |-> <<run, n>>]

\* C7, amended: after the reclamation and the provisioning of the second run
\* the paths /dev/gps<digits> are exactly the /dev/gps{i}, i < N, whose
\* symlink the second run created (all N when no step of its provisioning
\* failed), each a symlink to pty slave i of the second run; no path of the
\* first run is left and no index is published twice.
C7_OnlyFreshLinks ==
  (SecondRun /\ Provisioned) =>
    /\ Matching = created
    /\ created \subseteq {LinkName(n) : n \in Indices}
    /\ \A n \in Indices :
         LinkName(n) \in created =>
           fs[LinkName(n)] = [kind |-> "link", tgt |-> <<run, n>>]
    /\ skipped = {} => Matching = {LinkName(n) : n \in Indices}
    /\ \A a, b \in DOMAIN active_virtual_ports :
         active_virtual_ports[a].link = active_virtual_ports[b].link => a = b

\* the first run had two endpoints, the second has one: /dev/gps1 is gone
C7_Witness ==
  /\ SecondRun /\ Provisioned
  /\ stale = {LinkName(0), LinkName(1)}
  /\ end_id = 1
  /\ Matching = {LinkName(0)}
  /\ fs[LinkName(0)].tgt = <<2, 0>>

\* C8: the poll makes at most 30 existence checks and waits at most 30 times
\* 2 time units, and a device that never appears ends the process with
\* status 1.
C8_PollBoundedBy30 ==
  /\ checks <= MaxRetries
  /\ waited <= MaxRetries * SleepSecs
  /\ how = "timeout" => exit_code = 1

\* the text before the first "=" of a line, trimmed, and the text after it
KeyOf(line) ==
  IF EqPositions(line) = {} THEN Strip(line)
  ELSE Strip(SubSeq(line, 1, (CHOOSE k \in EqPositions(line) :
                                \A j \in EqPositions(line) : k <= j) - 1))

HasKey(c) == \E k \in DOMAIN c.lines : KeyOf(c.lines[k]) = GPS_PORT

ValueIsFalse(c) ==
  \E k \in DOMAIN c.lines :
    /\ KeyOf(c.lines[k]) = GPS_PORT
    /\ Lower(Strip(SplitPart1(c.lines[k]))) = FALSE_TEXT

\* the three inactive configurations of C9
Inactive(c) == ~c.exists \/ ~HasKey(c) \/ ValueIsFalse(c)

\* C9: with the value false, with no port-count key, or with no configuration
\* source the run is inactive: the source device is never opened, no endpoint
\* is created, nothing is registered, and the process exits with status 0.
C9_DisabledIsInactive ==
  Inactive(cfg) =>
    /\ source_fd = "none"
    /\ created = {}
    /\ virtual_fds = <<>>
    /\ active_virtual_ports = <<>>
    /\ \A p \in Names : ~OwnLink(p)
    /\ pc \in {"reclaim", "load_config", "exited", "killed"}
    /\ pc = "exited" => exit_code = 0

C9_Witness ==
  /\ pc = "exited"
  /\ how = "disabled"
  /\ exit_code = 0
  /\ ~cfg.exists

\* C10: the exit status is 1 exactly when the device did not appear within
\* the poll or could not be opened; disabled by configuration, end of stream,
\* read error and a signal in any phase give 0.
C10_ExitStatus ==
  pc = "exited" =>
    /\ exit_code \in {0, 1}
    /\ exit_code = 1 <=> how \in {"timeout", "open_failed"}
    /\ how = "timeout" => (source_fd = "none" /\ retry_count > MaxRetries)
    /\ how = "open_failed" => (source_fd = "none" /\ devPresent)
    /\ how = "disabled" => end_id <= 0
    /\ how \in {"eof", "read_error"} => source_fd = "closed"
    /\ sigpc # "none" => (how = "signal" /\ exit_code = 0)

\* a signal during the startup wait
C10_Witness ==
  /\ pc = "exited"
  /\ sigpc = "sleep"
  /\ exit_code = 0

\* the descriptors of the registry, in the order of registration
RegistryFds == [k \in DOMAIN active_virtual_ports |-> active_virtual_ports[k].fd]

\* a step taken while the write loop stands at turn wi: the loop goes on to
\* the next descriptor with the same chunk, or has taken the last one and goes
\* back to the read, or the process is ended; otherwise nothing of the loop
\* moves
C11_Turn ==
  pc = "write" =>
    \/ pc' = "write" /\ wi < Len(virtual_fds) /\ wi' = wi + 1 /\ data' = data
    \/ pc' = "read" /\ wi = Len(virtual_fds)
    \/ pc' \in {"cleanup", "killed"}
    \/ UNCHANGED <<pc, wi, data, recv>>

\* a chunk that was read is offered to the descriptors from the first one on
C11_Entry ==
  (pc = "read" /\ pc' = "write") =>
    (wi' = 1 /\ data' # <<>> /\ virtual_fds' = RegistryFds)

\* an endpoint is given bytes only in its own turn, only the head of the
\* chunk of this iteration, and the turn is over with it
C11_Delivery ==
  \A n \in PortIds :
    recv'[n] # recv[n] =>
      \/ recv'[n] = <<>>
      \/ /\ pc = "write"
         /\ virtual_fds[wi] = n
         /\ \E m \in 1..Len(data) : recv'[n] = recv[n] \o SubSeq(data, 1, m)
         /\ pc' = "read" \/ wi' = wi + 1

\* no outcome of a write takes an endpoint out of the loop or the registry
C11_StaysRegistered ==
  (InTry /\ InTry') =>
    (virtual_fds' = virtual_fds /\ active_virtual_ports' = active_virtual_ports)

\* C11: in each iteration of the main loop the chunk just read is written
\* once to every registered endpoint, in the order of the registry, whatever
\* the writes of this or of earlier iterations gave; a failing endpoint stays
\* registered; and an endpoint receives bytes only from the one write of the
\* current chunk, so what blocked or failed is not delivered later.
C11_OneAttemptPerChunk ==
  /\ [](InTry => virtual_fds = RegistryFds)
  /\ [][C11_Turn /\ C11_Entry /\ C11_Delivery /\ C11_StaysRegistered]_vars

\* endpoint 0 was written once per chunk: the write of byte 1 failed, and
\* byte 2 arrived with the next chunk; endpoint 1 has both
C11_Witness ==
  /\ pc = "read"
  /\ virtual_fds = <<0, 1>>
  /\ srcpos = 2
  /\ recv[0] = <<2>> /\ dropped[0]
  /\ recv[1] = <<1, 2>>

\* the main loop is left only for the teardown of the finally clause, and
\* only by a read that returned nothing, a read that raised, or a signal; a
\* step of the write loop leaves it only by a signal (or the process is killed)
C12_LoopExit ==
  (InTry /\ ~InTry') =>
    \/ pc' = "killed"
    \/ /\ pc' = "cleanup" /\ ci' = 1
       /\ \/ pc = "read" /\ how' \in {"eof", "read_error"}
          \/ how' = "signal"

\* the teardown is left only when it has gone through the whole registry, or
\* by a signal, whose handler goes through the whole registry itself
C12_TeardownRuns ==
  /\ (pc = "cleanup" /\ pc' = "close") => ci > Len(active_virtual_ports)
  /\ (pc \in {"cleanup", "close"} /\ pc' = "exited") =>
       \/ pc = "close"
       \/ how' = "signal" /\ fs' = cleanup_symlinks(fs, active_virtual_ports, 1, run)

\* C12: the main loop ends if and only if a source read returns no bytes or
\* raises an error, or a signal ends the process; no outcome of an endpoint
\* write ends it; and whenever it has ended, the teardown has gone through the
\* registry before the process exits.
C12_LoopEndsOnlyOnSource ==
  /\ [](how \in {"eof", "read_error"} => pc \in {"cleanup", "close", "exited"})
  /\ []((pc = "exited" /\ how \in {"eof", "read_error"}) =>
          \A k \in DOMAIN active_virtual_ports :
            /\ ~Exists(fs, active_virtual_ports[k].link, run)
            /\ Len(torn[k]) = 1)
  /\ [][C12_LoopExit /\ C12_TeardownRuns]_vars

\* a read error ended the loop and the exit path tore down both endpoints
C12_Witness ==
  /\ pc = "exited"
  /\ how = "read_error"
  /\ Len(active_virtual_ports) = 2
  /\ torn = <<(<<"exit">>), (<<"exit">>)>>

\* the public paths recorded in the registry
RegisteredLinks == {active_virtual_ports[k].link : k \in DOMAIN active_virtual_ports}

\* no provisioning step is under way: the loop stands before the first
\* statement of an index, or has ended
BetweenIndices == pc \in {"openpty", "read", "write"}

\* C13: whenever the provisioning step of an index has finished, by success
\* or by a failure at any sub-step, the symlinks this run has created at
\* public paths are exactly the public paths in the registry.
C13_CreatedIsRegistered ==
  BetweenIndices =>
    /\ created = RegisteredLinks
    /\ \A p \in Names : OwnLink(p) <=> p \in RegisteredLinks

\* main() stands in the provisioning loop or has gone through it
InOrPastProvisioning ==
  pc \in {"openpty", "unlink_stale", "symlink", "chmod_link", "chmod_slave",
          "append_fd", "register", "read", "write"}

\* a step in which the provisioning of index i fails: i is recorded as
\* skipped and not registered, and the loop goes on with index i + 1, or with
\* the main loop when i was the last index
C15_FailureStep ==
  (skipped' # skipped /\ skipped' # {}) =>
    /\ skipped' = skipped \cup {i}
    /\ i' = i + 1
    /\ active_virtual_ports' = active_virtual_ports
    /\ virtual_fds' = virtual_fds
    /\ pc' = IF i + 1 < end_id THEN "openpty" ELSE "read"

\* C15: a failure while provisioning an index does not end the provisioning:
\* every index up to the current one has been attempted and is either
\* registered or skipped, never both; a skipped index is not in the registry;
\* and the main loop starts when all N indices have been attempted, with the
\* endpoints that succeeded.
C15_FailureSkipsOneIndex ==
  /\ [](InOrPastProvisioning =>
          /\ Registered \cup skipped = START_ID..(i - 1)
          /\ Registered \cap skipped = {}
          /\ Provisioned => i = end_id)
  /\ [][C15_FailureStep]_vars

\* index 0 failed, index 1 was provisioned after it, and the main loop runs
C15_Witness ==
  /\ pc = "read"
  /\ end_id = 2
  /\ skipped = {0}
  /\ Registered = {1}
  /\ Published(1)

\* C14: when the provisioning of index i finds an entry at /dev/gps{i} (a
\* regular file, a symlink to a live target, or a symlink whose target is
\* gone), the double-check of lines 154-158 leaves the path free for the new
\* symlink.
C14_StaleEntryRemoved ==
  [][(/\ pc = "unlink_stale"
      /\ pc' = "symlink"
      /\ fs[LinkName(i)].kind \in {"file", "link"})
     => fs'[LinkName(i)] = Absent]_vars

\* the live endpoint of another instance
OthersLive == [kind |-> "link", tgt |-> Foreign]

\* C19: no step of this instance (startup reclaimer, provisioning, teardown)
\* removes a public path that points to the live endpoint of another
\* instance.
C19_RemovesOnlyOwn ==
  [][\A p \in Names : fs[p] = OthersLive => fs'[p] = OthersLive]_vars

\* C16: the startup reclaimer leaves every entry unchanged whose name is not
\* /dev/gps followed by digits and nothing else, and removes every file and
\* symlink whose name is, whatever the removal of other entries gave.
C16_OnlyDigitNames ==
  [][(pc = "reclaim" /\ pc' = "load_config") =>
       \A p \in DOMAIN fs :
         /\ ~IsDecimal(p) => fs'[p] = fs[p]
         /\ (IsDecimal(p) /\ fs[p].kind \in {"file", "link"}) => fs'[p] = Absent]_vars

\* the reclaimer is entered only when a process starts, and is left only by
\* its one pass over /dev (or by the end of the process)
C17_OncePerProcess ==
  /\ pc' = "reclaim" => (pc = "reclaim" \/ (~Running /\ run' = run + 1))
  /\ (pc = "reclaim" /\ pc' \notin {"reclaim", "exited", "killed"}) =>
       (pc' = "load_config" /\ fs' = force_cleanup_at_startup(fs, run))

\* C17: the startup reclaimer runs once in a process, before the process has
\* created any endpoint, and a second pass right after the first would
\* remove nothing: it leaves /dev exactly as the first pass left it.
C17_ReclaimOnceIdempotent ==
  /\ [](pc = "reclaim" =>
          /\ created = {} /\ active_virtual_ports = <<>> /\ virtual_fds = <<>>
          /\ \A p \in Names : ~OwnLink(p)
          /\ LET once == force_cleanup_at_startup(fs, run)
             IN  force_cleanup_at_startup(once, run) = once)
  /\ [][C17_OncePerProcess]_vars

\* the second run has reclaimed both symlinks that the first run left
C17_Witness ==
  /\ run = 2
  /\ pc = "load_config"
  /\ stale = {LinkName(0), LinkName(1)}
  /\ \A p \in Names : fs[p] = Absent
  /\ force_cleanup_at_startup(fs, run) = fs

\* the text after the first "=" of a line
ValueOf(line) ==
  IF EqPositions(line) = {} THEN <<>>
  ELSE SubSeq(line,
              (CHOOSE k \in EqPositions(line) : \A j \in EqPositions(line) : k <= j) + 1,
              Len(line))

\* the first line whose trimmed key is exactly the port-count key
FirstKeyLine(c) ==
  c.lines[CHOOSE k \in DOMAIN c.lines :
            /\ KeyOf(c.lines[k]) = GPS_PORT
            /\ \A j \in DOMAIN c.lines : KeyOf(c.lines[j]) = GPS_PORT => k <= j]

\* the endpoint count that the first exact-key line stands for, -1 for disabled
KeyLineCount(c) ==
  IF ~c.exists \/ ~HasKey(c) THEN -1
  ELSE LET v == Lower(Strip(ValueOf(FirstKeyLine(c))))
       IN  IF v = FALSE_TEXT THEN -1
           ELSE IF ParseInt(v).ok /\ ParseInt(v).n > 0 THEN ParseInt(v).n
           ELSE -1

\* C18: the first line whose trimmed key is exactly gps_port decides: with
\* the value false, or a value that is no positive integer, or with no such
\* line, the service is disabled; otherwise the value is the endpoint count.
\* Lines with another key, and lines after the first one with this key, do
\* not count.
C18_FirstExactKeyDecides ==
  pc \notin {"reclaim", "load_config"} =>
    IF KeyLineCount(cfg) = -1
    THEN pc = "exited" /\ how = "disabled" /\ exit_code = 0
    ELSE pc = "poll" /\ end_id = KeyLineCount(cfg)

====
